---------------------------- MODULE Spec2Model ----------------------------
(***************************************************************************)
(* WTF-8 strings of sgx_tstd (src/sgx_tstd/src/sys_common/wtf8.rs).        *)
(*                                                                         *)
(* A Wtf8Buf is its byte vector: a sequence of values 0..255.  A String or *)
(* &str is the byte vector of a valid UTF-8 text, a &Wtf8 is the byte      *)
(* slice of a well-formed WTF-8 string, a &[u16] is a sequence of values   *)
(* 0..65535.  The state machine holds one Wtf8Buf and one EncodeWide       *)
(* iterator borrowed from it.  It starts when a constructor has returned   *)
(* the buffer and takes one step per call of a method.                     *)
(***************************************************************************)
EXTENDS Integers, Sequences, FiniteSets, TLC

VARIABLES
    bytes,   \* Wtf8Buf.bytes of the buffer the program holds
    live,    \* FALSE once the buffer was moved out by a consuming method
    origin,  \* the constructor call that made the buffer, while it is unmodified
    last,    \* the last call: its name, its argument, what it returned
    iter     \* the EncodeWide iterator borrowed from the buffer, if any

vars == <<bytes, live, origin, last, iter>>

---------------------------------------------------------------------------
(* Bounds of the model.                                                    *)

\* longest buffer, in bytes, the model builds
MaxLen == 7
\* longest &str / &Wtf8 / code point iterator argument, in code points
MaxArg == 2
\* longest &[u16] argument of from_wide, in code units
MaxUnits == 3
\* how far around each edge of the code point ranges the u32 values reach
MaxDelta == 2

---------------------------------------------------------------------------
(* Machine arithmetic on naturals.                                         *)

RECURSIVE BitAnd(_, _)
BitAnd(a, b) ==
    IF a = 0 \/ b = 0 THEN 0
    ELSE (IF a % 2 = 1 /\ b % 2 = 1 THEN 1 ELSE 0) + 2 * BitAnd(a \div 2, b \div 2)

RECURSIVE BitOr(_, _)
BitOr(a, b) ==
    IF a = 0 THEN b
    ELSE IF b = 0 THEN a
    ELSE (IF a % 2 = 1 \/ b % 2 = 1 THEN 1 ELSE 0) + 2 * BitOr(a \div 2, b \div 2)

\* a << n on u16
Shl16(a, n) == (a * 2^n) % 2^16

\* a << n on u32: the code shifts operands below 2^16 by 10, so no bit is
\* shifted out
Shl32(a, n) == a * 2^n

\* the first n elements kept / the first n elements dropped
Take(s, n) == SubSeq(s, 1, n)
Drop(s, n) == SubSeq(s, n + 1, Len(s))

\* all sequences over S of length 0..n
RECURSIVE SeqsUpTo(_, _)
SeqsUpTo(S, n) ==
    IF n = 0 THEN {<<>>}
    ELSE LET shorter == SeqsUpTo(S, n - 1)
         IN  shorter \cup {Append(s, x) : s \in {t \in shorter : Len(t) = n - 1}, x \in S}

---------------------------------------------------------------------------
(* CodePoint and the surrogate codec.                                      *)

IsSurrogate(v) == v >= \hD800 /\ v <= \hDFFF
IsLead(v)      == v >= \hD800 /\ v <= \hDBFF
IsTrail(v)     == v >= \hDC00 /\ v <= \hDFFF

None == [tag |-> "None"]
Some(v) == [tag |-> "Some", val |-> v]

\* from_u32 refusing the last code point
from_u32_below_max(value) ==
    IF value >= 0 /\ value < \h10FFFF THEN Some(value) ELSE None

\* CodePoint::from_u32: a CodePoint is written as its `value` field
from_u32(value) ==
    IF value >= 0 /\ value <= \h10FFFF THEN Some(value) ELSE None

\* CodePoint::to_u32
to_u32(self) == self

\* CodePoint::to_char
to_char(value) ==
    IF value >= \hD800 /\ value <= \hDFFF THEN None ELSE Some(value)

\* CodePoint::to_char_lossy
to_char_lossy(value) ==
    IF to_char(value).tag = "Some" THEN to_char(value).val ELSE \hFFFD

\* decode_surrogate: u16 arithmetic, the first byte is assumed to be 0xED
decode_surrogate(second_byte, third_byte) ==
    BitOr(BitOr(\hD800, Shl16(BitAnd(second_byte, \h3F), 6)),
          BitAnd(third_byte, \h3F))

\* decode_surrogate_pair without the offset of the supplementary planes
decode_surrogate_pair_no_offset(lead, trail) ==
    BitOr(Shl32((lead - \hD800) % 2^16, 10), (trail - \hDC00) % 2^16)

\* decode_surrogate_pair: the subtractions are on u16, the rest on u32
decode_surrogate_pair(lead, trail) ==
    \h10000 + BitOr(Shl32((lead - \hD800) % 2^16, 10), (trail - \hDC00) % 2^16)

(* The functions of core the module calls.  Their bit fields are written   *)
(* with arithmetic: x >> n is x \div 2^n, x & (2^n - 1) is x % 2^n, and    *)
(* t | x is t + x where x has no bit of t.                                 *)

\* char::encode_utf8, as core encodes any u32 handed to from_u32_unchecked
encode_utf8(code) ==
    IF code < \h80 THEN <<code>>
    ELSE IF code < \h800 THEN
        << \hC0 + ((code \div 2^6) % 2^5),
           \h80 + (code % 2^6) >>
    ELSE IF code < \h10000 THEN
        << \hE0 + ((code \div 2^12) % 2^4),
           \h80 + ((code \div 2^6) % 2^6),
           \h80 + (code % 2^6) >>
    ELSE
        << \hF0 + ((code \div 2^18) % 2^3),
           \h80 + ((code \div 2^12) % 2^6),
           \h80 + ((code \div 2^6) % 2^6),
           \h80 + (code % 2^6) >>

\* char::encode_utf16, as core encodes any u32 handed to from_u32_unchecked
encode_utf16(code) ==
    IF (code % 2^16) = code THEN <<code>>
    ELSE LET c == code - \h10000
         IN  << \hD800 + ((c \div 2^10) % 2^10), \hDC00 + (c % 2^10) >>

\* core::str::next_code_point on the byte iterator `rest`: the code point and
\* the bytes left, or None at the end.  A missing continuation byte reads as 0.
ByteOr0(s, i) == IF i <= Len(s) THEN s[i] ELSE 0

next_code_point(rest) ==
    IF rest = <<>> THEN None
    ELSE LET x    == rest[1]
             init == x % 2^5
             y    == ByteOr0(rest, 2)
             z    == ByteOr0(rest, 3)
             w    == ByteOr0(rest, 4)
             y_z  == ((y % 2^6) * 2^6) + (z % 2^6)
         IN  IF x < 128 THEN Some([ch |-> x, rest |-> Drop(rest, 1)])
             ELSE IF x < \hE0 THEN
                 Some([ch |-> (init * 2^6) + (y % 2^6), rest |-> Drop(rest, 2)])
             ELSE IF x < \hF0 THEN
                 Some([ch |-> (init * 2^12) + y_z, rest |-> Drop(rest, 3)])
             ELSE
                 Some([ch |-> ((init % 2^3) * 2^18) + (y_z * 2^6) + (w % 2^6),
                       rest |-> Drop(rest, 4)])

---------------------------------------------------------------------------
(* Wtf8: the borrowed slice.                                               *)

Min(a, b) == IF a <= b THEN a ELSE b

\* the guard taking every byte after 0xED for the second byte of a surrogate
is_surrogate_second_byte_any(b2) == b2 >= \h80

\* the guard missing the surrogates U+D800..U+D83F
is_surrogate_second_byte_above(b2) == b2 > \hA0

\* the guard `if b2 >= 0xA0` of Wtf8::next_surrogate on the byte after 0xED
is_surrogate_second_byte(b2) == b2 >= \hA0

\* Wtf8::next_surrogate: `i` bytes of the slice are consumed by the byte
\* iterator, `pos` is the position the code keeps beside it.
RECURSIVE surrogate_scan(_, _, _)
surrogate_scan(b, i, pos) ==
    IF i >= Len(b) THEN None
    ELSE LET x == b[i + 1]
         IN  IF x < \h80 THEN surrogate_scan(b, i + 1, pos + 1)
             ELSE IF x < \hE0 THEN surrogate_scan(b, Min(i + 2, Len(b)), pos + 2)
             ELSE IF x = \hED THEN
                 IF i + 3 <= Len(b) /\ is_surrogate_second_byte(b[i + 2])
                 THEN Some(<<pos, decode_surrogate(b[i + 2], b[i + 3])>>)
                 ELSE surrogate_scan(b, Min(i + 3, Len(b)), pos + 3)
             ELSE IF x < \hF0 THEN surrogate_scan(b, Min(i + 3, Len(b)), pos + 3)
             ELSE surrogate_scan(b, Min(i + 4, Len(b)), pos + 4)

next_surrogate(b, pos) == surrogate_scan(b, pos, pos)

\* Wtf8::final_lead_surrogate
final_lead_surrogate(b) ==
    LET len == Len(b)
    IN  IF len < 3 THEN None
        ELSE IF b[len - 2] = \hED /\ b[len - 1] >= \hA0 /\ b[len - 1] <= \hAF
             THEN Some(decode_surrogate(b[len - 1], b[len]))
             ELSE None

\* Wtf8::initial_trail_surrogate
initial_trail_surrogate(b) ==
    LET len == Len(b)
    IN  IF len < 3 THEN None
        ELSE IF b[1] = \hED /\ b[2] >= \hB0 /\ b[2] <= \hBF
             THEN Some(decode_surrogate(b[2], b[3]))
             ELSE None

\* is_code_point_boundary taking 0xBF for a leading byte
is_code_point_boundary_excl(slice, index) ==
    IF index = Len(slice) THEN TRUE
    ELSE IF index >= Len(slice) THEN FALSE
    ELSE LET b == slice[index + 1] IN b < 128 \/ b >= 191

\* is_code_point_boundary
is_code_point_boundary(slice, index) ==
    IF index = Len(slice) THEN TRUE
    ELSE IF index >= Len(slice) THEN FALSE
    ELSE LET b == slice[index + 1] IN b < 128 \/ b >= 192

\* slice_unchecked: the bytes of [begin, end)
slice_unchecked(s, begin, end) == SubSeq(s, begin + 1, end)

Panic == [tag |-> "Panic"]
Ok(v)  == [tag |-> "Ok", val |-> v]
Err(v) == [tag |-> "Err", val |-> v]

\* Index<Range<usize>>::index refusing the empty range
index_range_strict(s, start, end) ==
    IF start < end /\ is_code_point_boundary(s, start) /\ is_code_point_boundary(s, end)
    THEN Ok(slice_unchecked(s, start, end))
    ELSE Panic

\* Index<Range<usize>>::index: the view, or the fatal path of slice_error_fail
index_range(s, start, end) ==
    IF start <= end /\ is_code_point_boundary(s, start) /\ is_code_point_boundary(s, end)
    THEN Ok(slice_unchecked(s, start, end))
    ELSE Panic

\* Index<RangeFrom<usize>>::index
index_range_from(s, start) ==
    IF is_code_point_boundary(s, start)
    THEN Ok(slice_unchecked(s, start, Len(s)))
    ELSE Panic

\* Index<RangeTo<usize>>::index
index_range_to(s, end) ==
    IF is_code_point_boundary(s, end)
    THEN Ok(slice_unchecked(s, 0, end))
    ELSE Panic

\* Wtf8::as_str
as_str(b) ==
    IF next_surrogate(b, 0).tag = "None" THEN Some(b) ELSE None

\* UTF8_REPLACEMENT_CHARACTER.as_bytes()
UTF8_REPLACEMENT_CHARACTER == encode_utf8(\hFFFD)

\* the loop of Wtf8::to_string_lossy after the first surrogate was found
RECURSIVE to_string_lossy_loop(_, _, _)
to_string_lossy_loop(b, utf8_bytes, pos) ==
    LET found == next_surrogate(b, pos)
    IN  IF found.tag = "Some"
        THEN LET surrogate_pos == found.val[1]
             IN  to_string_lossy_loop(
                     b,
                     utf8_bytes \o SubSeq(b, pos + 1, surrogate_pos)
                                \o UTF8_REPLACEMENT_CHARACTER,
                     surrogate_pos + 3)
        ELSE utf8_bytes \o Drop(b, pos)

\* to_string_lossy replacing the first surrogate only
to_string_lossy_first_only(b) ==
    LET first == next_surrogate(b, 0)
    IN  IF first.tag = "None" THEN [cow |-> "Borrowed", val |-> b]
        ELSE [cow |-> "Owned",
              val |-> Take(b, first.val[1]) \o UTF8_REPLACEMENT_CHARACTER
                      \o Drop(b, first.val[1] + 3)]

\* Wtf8::to_string_lossy: borrowed (the bytes themselves) or owned (a copy)
to_string_lossy(b) ==
    LET first == next_surrogate(b, 0)
    IN  IF first.tag = "None" THEN [cow |-> "Borrowed", val |-> b]
        ELSE LET surrogate_pos == first.val[1]
             IN  [cow |-> "Owned",
                  val |-> to_string_lossy_loop(
                              b,
                              Take(b, surrogate_pos) \o UTF8_REPLACEMENT_CHARACTER,
                              surrogate_pos + 3)]

---------------------------------------------------------------------------
(* Wtf8Buf: the owned buffer.                                              *)

\* Wtf8Buf::push_code_point_unchecked
push_code_point_unchecked(self, code_point) == self \o encode_utf8(code_point)

\* Wtf8Buf::push_char: CodePoint::from_char is `c as u32`
push_char(self, c) == push_code_point_unchecked(self, c)

\* Wtf8Buf::push_str
push_str(self, other) == self \o other

\* push without the check for a newly paired surrogate
push_without_pairing(self, code_point) == push_code_point_unchecked(self, code_point)

\* Wtf8Buf::push
push(self, code_point) ==
    IF code_point >= \hDC00 /\ code_point <= \hDFFF
       /\ final_lead_surrogate(self).tag = "Some"
    THEN LET lead == final_lead_surrogate(self).val
             len_without_lead_surrogate == Len(self) - 3
         IN  push_char(Take(self, len_without_lead_surrogate),
                       decode_surrogate_pair(lead, code_point % 2^16))
    ELSE push_code_point_unchecked(self, code_point)

\* push_wtf8 appending all of `other` after the supplementary code point
push_wtf8_keeps_trail(self, other) ==
    IF final_lead_surrogate(self).tag = "Some"
       /\ initial_trail_surrogate(other).tag = "Some"
    THEN push_char(Take(self, Len(self) - 3),
                   decode_surrogate_pair(final_lead_surrogate(self).val,
                                         initial_trail_surrogate(other).val))
         \o other
    ELSE self \o other

\* Wtf8Buf::push_wtf8
push_wtf8(self, other) ==
    IF final_lead_surrogate(self).tag = "Some"
       /\ initial_trail_surrogate(other).tag = "Some"
    THEN LET lead  == final_lead_surrogate(self).val
             trail == initial_trail_surrogate(other).val
             len_without_lead_surrogate == Len(self) - 3
             other_without_trail_surrogate == Drop(other, 3)
         IN  push_char(Take(self, len_without_lead_surrogate),
                       decode_surrogate_pair(lead, trail))
             \o other_without_trail_surrogate
    ELSE self \o other

\* extend appending each code point without the check for a new pair
RECURSIVE extend_unchecked(_, _)
extend_unchecked(self, code_points) ==
    IF code_points = <<>> THEN self
    ELSE extend_unchecked(push_code_point_unchecked(self, Head(code_points)),
                          Tail(code_points))

\* Extend<CodePoint>::extend: push for each code point of the iterator
RECURSIVE extend(_, _)
extend(self, code_points) ==
    IF code_points = <<>> THEN self
    ELSE extend(push(self, Head(code_points)), Tail(code_points))

\* FromIterator<CodePoint>::from_iter
from_iter(code_points) == extend(<<>>, code_points)

\* truncate without the assertion: Vec::truncate alone, which keeps a vector
\* shorter than new_len as it is
truncate_unasserted(self, new_len) == Ok(Take(self, Min(new_len, Len(self))))

\* Wtf8Buf::truncate: the shortened bytes, or the failed assertion
truncate(self, new_len) ==
    IF is_code_point_boundary(self, new_len) THEN Ok(Take(self, new_len)) ELSE Panic

\* decode_utf16 pairing nothing: every surrogate unit is an error item
decode_utf16_unpaired(v) ==
    [k \in 1..Len(v) |-> IF v[k] < \hD800 \/ \hDFFF < v[k] THEN Ok(v[k]) ELSE Err(v[k])]

\* core's char::decode_utf16 over the units `v`: the items it yields, Ok(char)
\* or Err(unpaired surrogate).  A unit read after a lead surrogate that is no
\* trail surrogate is kept for the next item.
RECURSIVE decode_utf16(_)
decode_utf16(v) ==
    IF v = <<>> THEN <<>>
    ELSE LET u == v[1]
         IN  IF u < \hD800 \/ \hDFFF < u THEN <<Ok(u)>> \o decode_utf16(Tail(v))
             ELSE IF u >= \hDC00 THEN <<Err(u)>> \o decode_utf16(Tail(v))
             ELSE IF Len(v) < 2 THEN <<Err(u)>>
             ELSE LET u2 == v[2]
                  IN  IF u2 < \hDC00 \/ u2 > \hDFFF
                      THEN <<Err(u)>> \o decode_utf16(Tail(v))
                      ELSE <<Ok(((u - \hD800) * 2^10) + (u2 - \hDC00) + \h10000)>>
                           \o decode_utf16(Drop(v, 2))

\* the loop of Wtf8Buf::from_wide over the decoded items
RECURSIVE from_wide_loop(_, _)
from_wide_loop(string, items) ==
    IF items = <<>> THEN string
    ELSE LET item == Head(items)
         IN  from_wide_loop(
                 IF item.tag = "Ok" THEN push_char(string, item.val)
                 ELSE push_code_point_unchecked(string, item.val),
                 Tail(items))

\* from_wide replacing an unpaired surrogate by U+FFFD
from_wide_lossy(v) ==
    from_wide_loop(<<>>, [k \in 1..Len(decode_utf16(v)) |->
                             IF decode_utf16(v)[k].tag = "Ok" THEN decode_utf16(v)[k]
                             ELSE Ok(\hFFFD)])

\* Wtf8Buf::from_wide
from_wide(v) == from_wide_loop(<<>>, decode_utf16(v))

\* Wtf8Buf::into_string
into_string(self) ==
    IF next_surrogate(self, 0).tag = "None" THEN Ok(self) ELSE Err(self)

\* Wtf8Buf::into_string_lossy: the loop overwriting surrogates in place
RECURSIVE into_string_lossy_loop(_, _)
into_string_lossy_loop(self, pos) ==
    LET found == next_surrogate(self, pos)
    IN  IF found.tag = "Some"
        THEN LET surrogate_pos == found.val[1]
                 new_pos == surrogate_pos + 3
             IN  into_string_lossy_loop(
                     [k \in 1..Len(self) |->
                         IF k > surrogate_pos /\ k <= new_pos
                         THEN UTF8_REPLACEMENT_CHARACTER[k - surrogate_pos]
                         ELSE self[k]],
                     new_pos)
        ELSE self

into_string_lossy(self) == into_string_lossy_loop(self, 0)

---------------------------------------------------------------------------
(* Iterators.                                                              *)

\* Wtf8::code_points / Wtf8CodePoints::next run to the end
RECURSIVE code_points(_)
code_points(b) ==
    LET n == next_code_point(b)
    IN  IF n.tag = "None" THEN <<>> ELSE <<n.val.ch>> \o code_points(n.val.rest)

\* Wtf8CodePoints::size_hint on `len` bytes left: len.saturating_add(3) is
\* len + 3 for every length below usize::MAX - 2
code_points_size_hint(len) == <<(len + 3) \div 4, Some(len)>>

\* Wtf8::encode_wide: EncodeWide { code_points, extra }
encode_wide(b) == [code_points |-> b, extra |-> 0]

\* EncodeWide::next never keeping the second unit of a pair
encode_wide_next_drops_extra(it) ==
    LET n == next_code_point(it.code_points)
    IN  IF n.tag = "None" THEN [item |-> None, it |-> it]
        ELSE [item |-> Some(encode_utf16(n.val.ch)[1]),
              it   |-> [code_points |-> n.val.rest, extra |-> 0]]

\* EncodeWide::next: the item and the iterator after the call
encode_wide_next(it) ==
    IF it.extra /= 0
    THEN [item |-> Some(it.extra), it |-> [it EXCEPT !.extra = 0]]
    ELSE LET n == next_code_point(it.code_points)
         IN  IF n.tag = "None" THEN [item |-> None, it |-> it]
             ELSE LET buf == encode_utf16(n.val.ch)
                  IN  [item |-> Some(buf[1]),
                       it   |-> [code_points |-> n.val.rest,
                                 extra |-> IF Len(buf) = 2 THEN buf[2] ELSE 0]]

\* EncodeWide::size_hint: checked_mul(2) succeeds for every length below
\* usize::MAX / 2
encode_wide_size_hint(it) ==
    LET hint == code_points_size_hint(Len(it.code_points))
        high == hint[2].val
    IN  <<hint[1], Some(high * 2)>>

\* Iterator::collect on an EncodeWide: next until None
RECURSIVE collect_wide(_)
collect_wide(it) ==
    LET n == encode_wide_next(it)
    IN  IF n.item.tag = "None" THEN <<>> ELSE <<n.item.val>> \o collect_wide(n.it)

---------------------------------------------------------------------------
(* Arguments the callers pass.                                             *)

\* code points of every encoded length: 1 byte, 2 bytes, 3 bytes with the lead
\* byte 0xED below the surrogates, the first and last lead surrogate, the
\* first and last trail surrogate, 4 bytes
CodePoints == {\h41, \hE9, \hD7FF, \hD800, \hDBFF, \hDC00, \hDFFF, \h10FFFF}

\* the values a char can hold
Scalars == {c \in CodePoints : to_char(c).tag = "Some"}

\* 16-bit code units: non-surrogates of 1, 2 and 3 bytes in WTF-8, the first
\* and last lead surrogate, the first and last trail surrogate
Units == {\h41, \hE9, \hD7FF, \hD800, \hDBFF, \hDC00, \hDFFF}

\* the code points of the longer arguments: a scalar, a lead surrogate, the
\* first and last trail surrogate
SeqCodePoints == {\h41, \hD800, \hDC00, \hDFFF}

RECURSIVE EncodeAll(_)
EncodeAll(cps) ==
    IF cps = <<>> THEN <<>> ELSE encode_utf8(Head(cps)) \o EncodeAll(Tail(cps))

NoSurrogatePair(cps) ==
    \A i \in 1..(Len(cps) - 1) : ~(IsLead(cps[i]) /\ IsTrail(cps[i + 1]))

\* the bytes of the String and &str values: valid UTF-8
Utf8Texts == {EncodeAll(cs) : cs \in SeqsUpTo(Scalars, MaxArg)}

\* the bytes of the &Wtf8 values passed to push_wtf8: well-formed WTF-8
Wtf8Slices ==
    {EncodeAll(cps) : cps \in {q \in SeqsUpTo(SeqCodePoints, MaxArg) : NoSurrogatePair(q)}}

\* the &[u16] values
WideStrings == SeqsUpTo(Units, MaxUnits)

\* the code points the iterator passed to from_iter yields
CodePointIters == SeqsUpTo(CodePoints, MaxArg)

\* the code points the iterator passed to extend yields
ExtendIters == SeqsUpTo(SeqCodePoints, MaxArg)

\* the u32 values passed to from_u32: around 0, the edges of the lead and
\* trail surrogates, U+FFFD, the first supplementary code point, the last
\* code point, and a value far above it
U32Values ==
    {v \in {edge + d : edge \in {0, \hD800, \hDC00, \hE000, \hFFFD, \h10000,
                                 \h110000, \h7FFFFF00},
                       d \in (-MaxDelta)..MaxDelta} : v >= 0}

---------------------------------------------------------------------------
(* The state machine: one step per call.                                   *)

Unit == [tag |-> "Unit"]
NoIter == [tag |-> "None"]
NoOrigin == [op |-> "none", arg |-> <<>>]

Call(op, arg, ret) == [op |-> op, arg |-> arg, ret |-> ret]

\* the state when the constructor `op` has returned a buffer holding new_bytes
Constructed(op, arg, new_bytes) ==
    /\ Len(new_bytes) <= MaxLen
    /\ bytes = new_bytes
    /\ live = TRUE
    /\ origin = [op |-> op, arg |-> arg]
    /\ last = Call(op, arg, Unit)
    /\ iter = NoIter

\* Wtf8Buf::new, from_string, from_str, from_wide and from_iter
Init ==
    \/ Constructed("new", <<>>, <<>>)
    \/ \E string \in Utf8Texts : Constructed("from_string", string, string)
    \/ \E str \in Utf8Texts : Constructed("from_str", str, str)
    \/ \E v \in WideStrings : Constructed("from_wide", v, from_wide(v))
    \/ \E iterator \in CodePointIters :
           Constructed("from_iter", iterator, from_iter(iterator))

\* a &mut self method changes the bytes; the borrow of the iterator has ended
Mutate(op, arg, new_bytes) ==
    /\ live
    /\ Len(new_bytes) <= MaxLen
    /\ bytes' = new_bytes
    /\ origin' = NoOrigin
    /\ last' = Call(op, arg, Unit)
    /\ iter' = NoIter
    /\ UNCHANGED live

\* a &self method returns a value and leaves the buffer alone
Observe(op, arg, ret) ==
    /\ live
    /\ last' = Call(op, arg, ret)
    /\ UNCHANGED <<bytes, live, origin, iter>>

Clear == Mutate("clear", <<>>, <<>>)

PushStr == \E other \in Utf8Texts : Mutate("push_str", other, push_str(bytes, other))

PushWtf8 == \E other \in Wtf8Slices : Mutate("push_wtf8", other, push_wtf8(bytes, other))

PushChar == \E c \in Scalars : Mutate("push_char", <<c>>, push_char(bytes, c))

Push == \E code_point \in CodePoints : Mutate("push", <<code_point>>, push(bytes, code_point))

Extend ==
    \E iterator \in ExtendIters :
        Mutate("extend", iterator, extend(bytes, iterator))

\* truncate: a failed assertion unwinds and leaves the buffer as it was
Truncate ==
    \E new_len \in 0..(Len(bytes) + 1) :
        LET r == truncate(bytes, new_len)
        IN  /\ live
            /\ bytes' = IF r.tag = "Ok" THEN r.val ELSE bytes
            /\ origin' = IF r.tag = "Ok" /\ r.val /= bytes THEN NoOrigin ELSE origin
            /\ last' = Call("truncate", <<new_len>>, IF r.tag = "Ok" THEN Unit ELSE Panic)
            /\ iter' = NoIter
            /\ UNCHANGED live

\* into_string takes self: Ok moves the bytes into the String, Err hands the
\* buffer back
IntoString ==
    LET r == into_string(bytes)
    IN  /\ live
        /\ last' = Call("into_string", <<>>, r)
        /\ live' = (r.tag = "Err")
        /\ bytes' = IF r.tag = "Err" THEN r.val ELSE <<>>
        /\ iter' = NoIter
        /\ UNCHANGED origin

\* into_string_lossy takes self and returns the String
IntoStringLossy ==
    /\ live
    /\ last' = Call("into_string_lossy", <<>>, Ok(into_string_lossy(bytes)))
    /\ live' = FALSE
    /\ bytes' = <<>>
    /\ iter' = NoIter
    /\ UNCHANGED origin

AsStr == Observe("as_str", <<>>, as_str(bytes))

ToStringLossy == Observe("to_string_lossy", <<>>, to_string_lossy(bytes))

IsCodePointBoundary ==
    \E index \in 0..(Len(bytes) + 1) :
        Observe("is_code_point_boundary", <<index>>,
                [tag |-> "Bool", val |-> is_code_point_boundary(bytes, index)])

IndexRange ==
    \E start \in 0..(Len(bytes) + 1), end \in 0..(Len(bytes) + 1) :
        Observe("index_range", <<start, end>>, index_range(bytes, start, end))

IndexRangeFrom ==
    \E start \in 0..(Len(bytes) + 1) :
        Observe("index_range_from", <<start>>, index_range_from(bytes, start))

IndexRangeTo ==
    \E end \in 0..(Len(bytes) + 1) :
        Observe("index_range_to", <<end>>, index_range_to(bytes, end))

\* encode_wide borrows the buffer; `out` keeps the units the iterator yielded
\* and `done` whether next has returned None
EncodeWide ==
    /\ live
    /\ iter' = [tag |-> "Some", it |-> encode_wide(bytes), out |-> <<>>, done |-> FALSE]
    /\ last' = Call("encode_wide", <<>>, Unit)
    /\ UNCHANGED <<bytes, live, origin>>

EncodeWideNext ==
    /\ live
    /\ iter.tag = "Some"
    /\ LET n == encode_wide_next(iter.it)
       IN  /\ iter' = [tag  |-> "Some",
                       it   |-> n.it,
                       out  |-> IF n.item.tag = "Some"
                                THEN Append(iter.out, n.item.val) ELSE iter.out,
                       done |-> iter.done \/ n.item.tag = "None"]
           /\ last' = Call("next", <<>>, n.item)
    /\ UNCHANGED <<bytes, live, origin>>

\* EncodeWide::size_hint on the iterator as the calls of next left it
EncodeWideSizeHint ==
    /\ live
    /\ iter.tag = "Some"
    /\ last' = Call("size_hint", <<>>, encode_wide_size_hint(iter.it))
    /\ UNCHANGED <<bytes, live, origin, iter>>

\* Wtf8Buf::from_wide on the units collected from the exhausted iterator: the
\* new buffer takes the place of the one the units came from
FromWideOfEncodeWide ==
    /\ live
    /\ iter.tag = "Some"
    /\ iter.done
    /\ bytes' = from_wide(iter.out)
    /\ origin' = [op |-> "from_wide", arg |-> iter.out]
    /\ last' = Call("from_wide_of_encode_wide", iter.out, Unit)
    /\ iter' = NoIter
    /\ UNCHANGED live

\* a u32 value is at hand and no buffer
InitCodePoint ==
    \E value \in U32Values :
        /\ bytes = <<>>
        /\ live = FALSE
        /\ origin = NoOrigin
        /\ last = Call("u32", <<value>>, Unit)
        /\ iter = NoIter

FromU32 ==
    /\ last.op = "u32"
    /\ last' = Call("from_u32", last.arg, from_u32(last.arg[1]))
    /\ UNCHANGED <<bytes, live, origin, iter>>

\* a method of the CodePoint that from_u32 returned
OnCodePoint(op, ret) ==
    /\ last.op = "from_u32"
    /\ last.ret.tag = "Some"
    /\ last' = Call(op, <<last.ret.val>>, ret)
    /\ UNCHANGED <<bytes, live, origin, iter>>

ToU32 == OnCodePoint("to_u32", [tag |-> "U32", val |-> to_u32(last.ret.val)])

ToChar == OnCodePoint("to_char", to_char(last.ret.val))

ToCharLossy == OnCodePoint("to_char_lossy", [tag |-> "Char", val |-> to_char_lossy(last.ret.val)])

\* the buffer is as a constructor returned it: no method was called on it yet
Fresh == last.op = origin.op

\* the methods that build the buffer up and cut it down
Next ==
    \/ Clear
    \/ PushStr
    \/ PushWtf8
    \/ PushChar
    \/ Push
    \/ Extend
    \/ Truncate

Spec == Init /\ [][Next]_vars

\* a conversion or a view taken of the buffer a constructor returned
NextView ==
    /\ Fresh
    /\ \/ IntoString
       \/ IntoStringLossy
       \/ AsStr
       \/ ToStringLossy
       \/ IsCodePointBoundary
       \/ IndexRange
       \/ IndexRangeFrom
       \/ IndexRangeTo

SpecView == Init /\ [][NextView]_vars

\* the round trips through potentially ill-formed UTF-16
NextWide ==
    \/ EncodeWide
    \/ EncodeWideNext
    \/ EncodeWideSizeHint
    \/ FromWideOfEncodeWide

SpecWide == Init /\ [][NextWide]_vars

\* a method taking byte offsets, truncate or one of the three range
\* indexings, called on the buffer a constructor returned
NextCut ==
    /\ Fresh
    /\ \/ Truncate
       \/ IndexRange
       \/ IndexRangeFrom
       \/ IndexRangeTo

SpecCut == Init /\ [][NextCut]_vars

\* CodePoint: from_u32 on a value, then a method of the CodePoint
NextCodePoint ==
    \/ FromU32
    \/ ToU32
    \/ ToChar
    \/ ToCharLossy

SpecCodePoint == InitCodePoint /\ [][NextCodePoint]_vars

---------------------------------------------------------------------------
(* Well-formed WTF-8, stated from the encoding and not from the methods.   *)

\* b is a concatenation of encodings of code points in [0, 0x10FFFF]
RECURSIVE IsConcatOfEncodings(_)
IsConcatOfEncodings(b) ==
    \/ b = <<>>
    \/ \E n \in 1..Min(4, Len(b)) :
           LET cp == next_code_point(Take(b, n)).val.ch
           IN  /\ cp <= \h10FFFF
               /\ encode_utf8(cp) = Take(b, n)
               /\ IsConcatOfEncodings(Drop(b, n))

WellFormedWtf8(b) == IsConcatOfEncodings(b) /\ NoSurrogatePair(code_points(b))

\* b ends in the 3-byte encoding of a lead surrogate, and which
FinalLead(b) ==
    LET end == Drop(b, Len(b) - 3)
        L   == next_code_point(end).val.ch
    IN  IF Len(b) >= 3 /\ IsLead(L) /\ encode_utf8(L) = end THEN Some(L) ELSE None

\* the supplementary scalar of a surrogate pair
Combined(L, T) == \h10000 + ((L - \hD800) * 2^10) + (T - \hDC00)

HasSurrogate(b) == \E i \in 1..Len(code_points(b)) : IsSurrogate(code_points(b)[i])

---------------------------------------------------------------------------
(* Claims.                                                                 *)

\* C1: after any sequence of push, push_char, push_str, push_wtf8, extend,
\* truncate and clear on a buffer a constructor returned, the bytes of the
\* buffer are well-formed WTF-8: a concatenation of encodings of code points
\* up to 0x10FFFF in which no lead surrogate is followed by a trail surrogate.
C1_WellFormed == WellFormedWtf8(bytes)

\* a trail surrogate was pushed after 'A' and a lead surrogate and was paired
C1_Witness ==
    /\ last.op = "push"
    /\ last.arg = <<\hDC00>>
    /\ bytes = <<\h41>> \o encode_utf8(\h10FC00)

\* C4: push(cp) on a buffer ending in a lead surrogate L, cp a trail surrogate
\* T, leaves the buffer without its last 3 bytes followed by the 4 bytes of
\* 0x10000 + ((L - 0xD800) << 10) + (T - 0xDC00), which is what pushing that
\* scalar in place of the pair leaves; every other push appends the encoding
\* of cp, 3 bytes for a surrogate.
C4_Push ==
    [][last'.op = "push" =>
          LET cp == last'.arg[1]
              L  == FinalLead(bytes)
          IN  IF IsTrail(cp) /\ L.tag = "Some"
              THEN /\ bytes' = Take(bytes, Len(bytes) - 3) \o encode_utf8(Combined(L.val, cp))
                   /\ Len(bytes') = Len(bytes) + 1
                   /\ bytes' = push(Take(bytes, Len(bytes) - 3), Combined(L.val, cp))
              ELSE /\ bytes' = bytes \o encode_utf8(cp)
                   /\ IsSurrogate(cp) => Len(bytes') = Len(bytes) + 3
    ]_vars

\* the last trail surrogate was pushed after the last lead surrogate
C4_Witness ==
    /\ last.op = "push"
    /\ last.arg = <<\hDFFF>>
    /\ Len(bytes) > 4
    /\ Drop(bytes, Len(bytes) - 4) = encode_utf8(\h10FFFF)

\* C5: the code units of a.push_wtf8(b) are the code units of a followed by
\* the code units of b.
C5_PushWtf8 ==
    [][last'.op = "push_wtf8" =>
          collect_wide(encode_wide(bytes')) =
              collect_wide(encode_wide(bytes)) \o collect_wide(encode_wide(last'.arg))
    ]_vars

\* a slice of a trail surrogate and 'A' was pushed after a lead surrogate
C5_Witness ==
    /\ last.op = "push_wtf8"
    /\ last.arg = EncodeAll(<<\hDC00, \h41>>)
    /\ bytes = encode_utf8(\h10000) \o <<\h41>>

\* C2: the units collected from from_wide(U).encode_wide() are U.
C2_WideRoundTrip ==
    (origin.op = "from_wide" /\ iter.tag = "Some" /\ iter.done) => iter.out = origin.arg

\* the iterator over from_wide of a lead surrogate and a surrogate pair is
\* exhausted
C2_Witness ==
    /\ origin.op = "from_wide"
    /\ origin.arg = <<\hD800, \hDBFF, \hDFFF>>
    /\ iter.tag = "Some"
    /\ iter.done

\* C3: from_wide on the units collected from w.encode_wide() returns the
\* bytes of w.
C3_WideInverse ==
    [][last'.op = "from_wide_of_encode_wide" => bytes' = bytes]_vars

\* from_wide returned a trail surrogate followed by a supplementary scalar
C3_Witness ==
    /\ last.op = "from_wide_of_encode_wide"
    /\ bytes = EncodeAll(<<\hDC00, \h10FFFF>>)

\* C6: into_string returns Ok with the bytes of the buffer when the buffer
\* holds no surrogate and Err with the buffer, its bytes unchanged, when it
\* holds one; as_str returns Some in the first case and None in the second.
C6_IntoString ==
    [][
        /\ last'.op = "into_string" =>
              IF HasSurrogate(bytes)
              THEN last'.ret = Err(bytes) /\ bytes' = bytes /\ live'
              ELSE last'.ret = Ok(bytes)
        /\ last'.op = "as_str" =>
              IF HasSurrogate(bytes)
              THEN last'.ret = None
              ELSE last'.ret = Some(bytes)
    ]_vars

\* into_string failed on U+D7FF followed by the first lead surrogate
C6_Witness ==
    /\ last.op = "into_string"
    /\ last.ret = Err(EncodeAll(<<\hD7FF, \hD800>>))

\* C7: from_string(s).into_string() is Ok(s) for every valid UTF-8 text s.
C7_Utf8RoundTrip ==
    (last.op = "into_string" /\ origin.op = "from_string") => last.ret = Ok(origin.arg)

\* into_string was called on from_string of U+D7FF and U+10FFFF
C7_Witness ==
    /\ last.op = "into_string"
    /\ origin.op = "from_string"
    /\ origin.arg = EncodeAll(<<\hD7FF, \h10FFFF>>)
    /\ last.ret.tag = "Ok"

\* the bytes of b with every surrogate encoding replaced by EF BF BD where it
\* stands
RECURSIVE SurrogatesReplaced(_)
SurrogatesReplaced(b) ==
    LET n == next_code_point(b)
    IN  IF n.tag = "None" THEN <<>>
        ELSE (IF IsSurrogate(n.val.ch) THEN <<\hEF, \hBF, \hBD>>
              ELSE Take(b, Len(b) - Len(n.val.rest)))
             \o SurrogatesReplaced(n.val.rest)

\* C8: to_string_lossy and into_string_lossy return the bytes of the string
\* with every 3-byte surrogate encoding replaced in place by EF BF BD: the
\* same length, no surrogate left, and the same bytes from both.
C8_Lossy ==
    [][
        /\ last'.op = "to_string_lossy" =>
              /\ last'.ret.val = SurrogatesReplaced(bytes)
              /\ Len(last'.ret.val) = Len(bytes)
              /\ ~HasSurrogate(last'.ret.val)
              /\ last'.ret.val = into_string_lossy(bytes)
        /\ last'.op = "into_string_lossy" =>
              /\ last'.ret.val = SurrogatesReplaced(bytes)
              /\ Len(last'.ret.val) = Len(bytes)
              /\ ~HasSurrogate(last'.ret.val)
              /\ last'.ret.val = to_string_lossy(bytes).val
    ]_vars

\* to_string_lossy replaced a trail and a lead surrogate around 'A'
C8_Witness ==
    /\ last.op = "to_string_lossy"
    /\ bytes = EncodeAll(<<\hDC00, \h41, \hD800>>)
    /\ last.ret = [cow |-> "Owned", val |-> <<\hEF, \hBF, \hBD, \h41, \hEF, \hBF, \hBD>>]

\* C9 as claimed: for an offset i up to the length, is_code_point_boundary
\* is true iff i is 0, i is the length, or the byte at i is outside
\* [0x80, 0xBF), 0xBF excluded from the continuation bytes.
C9_Claimed ==
    (last.op = "is_code_point_boundary" /\ last.arg[1] <= Len(bytes)) =>
        LET i == last.arg[1]
        IN  last.ret.val <=>
                \/ i = 0
                \/ i = Len(bytes)
                \/ ~(bytes[i + 1] >= \h80 /\ bytes[i + 1] < \hBF)

\* C9 as amended: for an offset i up to the length, is_code_point_boundary
\* is true iff i is 0, i is the length, or the byte at i is outside
\* [0x80, 0xBF], 0xBF included in the continuation bytes; it is false for an
\* offset beyond the length.
C9_Boundary ==
    last.op = "is_code_point_boundary" =>
        LET i == last.arg[1]
        IN  last.ret.val <=>
                /\ i <= Len(bytes)
                /\ \/ i = 0
                   \/ i = Len(bytes)
                   \/ ~(bytes[i + 1] >= \h80 /\ bytes[i + 1] <= \hBF)

\* is_code_point_boundary returned false at the last byte, 0xBF, of U+D7FF
C9_Witness ==
    /\ last.op = "is_code_point_boundary"
    /\ bytes = <<\hED, \h9F, \hBF>>
    /\ last.arg = <<2>>
    /\ last.ret.val = FALSE

\* C10 as claimed: is_code_point_boundary is true at 0 and at the length, and
\* s[x..y] at any two code point boundaries x and y takes no fatal path.
C10_Claimed ==
    /\ (last.op = "is_code_point_boundary" /\ last.arg[1] \in {0, Len(bytes)}) =>
           last.ret.val
    /\ (/\ last.op = "index_range"
        /\ is_code_point_boundary(bytes, last.arg[1])
        /\ is_code_point_boundary(bytes, last.arg[2])) =>
           last.ret.tag /= "Panic"

\* C10 as amended: is_code_point_boundary is true at 0 and at the length,
\* s[x..y] at two code point boundaries x <= y takes no fatal path and is the
\* bytes from x to y, and s[x..y] with x > y takes the fatal path.
C10_Slice ==
    /\ (last.op = "is_code_point_boundary" /\ last.arg[1] \in {0, Len(bytes)}) =>
           last.ret.val
    /\ (/\ last.op = "index_range"
        /\ last.arg[1] <= last.arg[2]
        /\ is_code_point_boundary(bytes, last.arg[1])
        /\ is_code_point_boundary(bytes, last.arg[2])) =>
           last.ret = Ok(SubSeq(bytes, last.arg[1] + 1, last.arg[2]))
    /\ (last.op = "index_range" /\ last.arg[1] > last.arg[2]) => last.ret = Panic

\* the empty range at the end of a lead surrogate after 'é' was taken
C10_Witness ==
    /\ last.op = "index_range"
    /\ bytes = EncodeAll(<<\hE9, \hD800>>)
    /\ last.arg = <<5, 5>>
    /\ last.ret = Ok(<<>>)

---------------------------------------------------------------------------
(* Claims on the fatal path, the size hint, CodePoint and the two ways to  *)
(* append.                                                                 *)

\* the offsets at which a code point of b starts, and the length of b
RECURSIVE CodePointOffsets(_)
CodePointOffsets(b) ==
    LET n == next_code_point(b)
    IN  IF n.tag = "None" THEN {0}
        ELSE LET k == Len(b) - Len(n.val.rest)
             IN  {0} \cup {k + o : o \in CodePointOffsets(n.val.rest)}

\* C11: truncate(n) and the range indexings [b,e), [b,) and [,e) take the
\* fatal path whenever an offset lies inside a multi-byte code point or
\* exceeds the length, and leave the bytes as they were; truncate(n) at a
\* code point boundary up to the length leaves the first n bytes.
C11_Fatal ==
    [][
        /\ last'.op = "truncate" =>
              IF last'.arg[1] \in CodePointOffsets(bytes)
              THEN last'.ret = Unit /\ bytes' = Take(bytes, last'.arg[1])
              ELSE last'.ret = Panic /\ bytes' = bytes
        /\ last'.op = "index_range" =>
              /\ bytes' = bytes
              /\ (\/ last'.arg[1] \notin CodePointOffsets(bytes)
                  \/ last'.arg[2] \notin CodePointOffsets(bytes)) => last'.ret = Panic
        /\ last'.op \in {"index_range_from", "index_range_to"} =>
              /\ bytes' = bytes
              /\ last'.arg[1] \notin CodePointOffsets(bytes) => last'.ret = Panic
    ]_vars

\* truncate(1) failed on the 2 bytes of U+00E9 and left them
C11_Witness ==
    /\ last.op = "truncate"
    /\ last.arg = <<1>>
    /\ last.ret = Panic
    /\ bytes = <<\hC3, \hA9>>

\* C12 as claimed: after any number of calls of next, the number of code
\* units the encode_wide iterator still yields is at least the low and at
\* most the high of its size hint.
C12_Claimed ==
    (last.op = "size_hint" /\ iter.tag = "Some") =>
        LET remaining == Len(collect_wide(iter.it))
            low       == last.ret[1]
            high      == last.ret[2]
        IN  /\ low <= remaining
            /\ high.tag = "Some" => remaining <= high.val

\* C13 as claimed: from_u32(v) is a CodePoint whose to_u32() is v when
\* v <= 0x10FFFF and None when v > 0x10FFFF; to_char() is None exactly when
\* the value is in 0xD800..0xDFFF; to_char_lossy() is U+FFFD in exactly those
\* cases.
C13_Claimed ==
    [][
        /\ last'.op = "from_u32" =>
              (last'.ret.tag = "Some") <=> (last'.arg[1] <= \h10FFFF)
        /\ last'.op = "to_u32" => last'.ret.val = last.arg[1]
        /\ last'.op = "to_char" =>
              (last'.ret = None) <=> IsSurrogate(last.arg[1])
        /\ last'.op = "to_char_lossy" =>
              (last'.ret.val = \hFFFD) <=> IsSurrogate(last.arg[1])
    ]_vars

\* C13 as amended: from_u32(v) is a CodePoint whose to_u32() is v when
\* v <= 0x10FFFF and None when v > 0x10FFFF; to_char() is None exactly when
\* the value is in 0xD800..0xDFFF and the scalar of that value otherwise;
\* to_char_lossy() is U+FFFD in those cases and the scalar of the value in
\* all others, so it is U+FFFD for the code point U+FFFD as well.
C13_CodePoint ==
    [][
        /\ last'.op = "from_u32" =>
              (last'.ret.tag = "Some") <=> (last'.arg[1] <= \h10FFFF)
        /\ last'.op = "to_u32" => last'.ret.val = last.arg[1]
        /\ last'.op = "to_char" =>
              last'.ret = IF IsSurrogate(last.arg[1]) THEN None ELSE Some(last.arg[1])
        /\ last'.op = "to_char_lossy" =>
              /\ last'.ret.val = IF IsSurrogate(last.arg[1]) THEN \hFFFD ELSE last.arg[1]
              /\ (last'.ret.val = \hFFFD) <=>
                     (IsSurrogate(last.arg[1]) \/ last.arg[1] = \hFFFD)
    ]_vars

\* to_char_lossy returned U+FFFD for the code point U+FFFD, no surrogate
C13_Witness ==
    /\ last.op = "to_char_lossy"
    /\ last.arg = <<\hFFFD>>
    /\ last.ret.val = \hFFFD

\* C14: a.push_wtf8(b) leaves the bytes that a.extend(b.code_points()) leaves,
\* each code point of b appended through push; from_iter over a lead and a
\* trail surrogate returns the one supplementary scalar they combine to.
C14_ExtendAgrees ==
    [][
        /\ last'.op = "push_wtf8" =>
              bytes' = extend(bytes, code_points(last'.arg))
        /\ (/\ origin.op = "from_iter"
            /\ Len(origin.arg) = 2
            /\ IsLead(origin.arg[1])
            /\ IsTrail(origin.arg[2])) =>
              bytes = encode_utf8(Combined(origin.arg[1], origin.arg[2]))
    ]_vars

\* the last trail surrogate was appended by push_wtf8 to 'A' and the first
\* lead surrogate
C14_Witness ==
    /\ last.op = "push_wtf8"
    /\ last.arg = encode_utf8(\hDFFF)
    /\ bytes = <<\h41>> \o encode_utf8(\h103FF)

\* C15: at every step at which from_wide appends an unpaired surrogate by
\* push_code_point_unchecked, the buffer built so far does not end in a lead
\* surrogate while the appended unit is a trail surrogate; and from_wide(U)
\* has the bytes that pushing each unit of U as a code point through push
\* leaves.
C15_UncheckedSafe ==
    origin.op = "from_wide" =>
        LET items == decode_utf16(origin.arg)
        IN  /\ \A k \in 1..Len(items) :
                   items[k].tag = "Err" =>
                       ~(/\ FinalLead(from_wide_loop(<<>>, Take(items, k - 1))).tag = "Some"
                         /\ IsTrail(items[k].val))
            /\ bytes = extend(<<>>, origin.arg)

\* from_wide appended a trail surrogate unchecked after the first
\* supplementary scalar
C15_Witness ==
    /\ origin.op = "from_wide"
    /\ origin.arg = <<\hD800, \hDC00, \hDC00>>
    /\ bytes = encode_utf8(\h10000) \o encode_utf8(\hDC00)

=============================================================================
